---- MODULE Spec2Model ----
(***************************************************************************)
(* Model of the drone_edge analysis job orchestrator.                      *)
(*                                                                         *)
(*  - api_server.py: the Flask handlers start_analysis / stop_analysis     *)
(*    run on concurrent request threads and share the unguarded global     *)
(*    current_analysis; run_inference_background runs on one daemon        *)
(*    thread per accepted job and spawns the pipeline as a subprocess.     *)
(*  - run_inference_local.py / run_inference_firebase.py: the pipeline     *)
(*    process (frame loop, sink writes, session finalisation).             *)
(*  - firebase_uploader.py: the remote sink's session bookkeeping.         *)
(*                                                                         *)
(* Every action is one step of one thread or process that makes one        *)
(* access to shared state (the global dict, config.yaml, the output files, *)
(* the remote database, a process signal); statements that touch only the  *)
(* thread's own locals are folded into the neighbouring shared access.     *)
(*                                                                         *)
(* Wall-clock seconds are counted in job launches (Clock): int(time.time())*)
(* read by two jobs may or may not give the same second, and never runs    *)
(* backwards.                                                              *)
(***************************************************************************)
EXTENDS Integers, Sequences, FiniteSets

\* ---------------------------------------------------------------- bounds
NumHandlers == 2    \* concurrent HTTP request threads
MaxJobs == 2        \* accepted jobs (worker threads started) per behaviour
MaxFrames == 1      \* frames of the uploaded video files
MaxDet == 1         \* detections found on one frame
MaxLatency == 2     \* measured duration of one model call, in clock ticks
MaxSamples == 4     \* predict calls on one engine
MaxTotalFrames == 4 \* frame count that a video file's header reports
MaxReadable == 5    \* frames that a capture delivers before it runs dry

None == 0           \* Python None for the integer-coded fields

Handlers == 1..NumHandlers
Jobs == 1..MaxJobs
Videos == {MaxFrames}       \* a video file is named by its number of frames
Times == 0..MaxJobs

NoSession == <<>>
SessionId(prefix, t) == <<prefix, t>>

Absent == [exists |-> FALSE]

\* A file that open(path, 'w') has emptied and json.dump has not yet filled.
Truncated == [exists |-> TRUE, truncated |-> TRUE]

\* Steps that are no read request answer with no body.
NoReply == <<>>

\* VideoProcessor.__init__ lines 40-45, before _open_source: no capture.
NoVideo == [cap |-> FALSE, live |-> FALSE, total_frames |-> 0,
            current_frame |-> 0, readable |-> 0, ret |-> FALSE]

VARIABLES
    FIREBASE_ENABLED,   \* api_server.py:23, fixed at import time
    current_analysis,   \* the global job state dict
    hpc, hvideo, hsid,  \* request threads: position, locals
    response,           \* what the last step answered to its HTTP client
    reply,              \* body of the answer of the last step, if it was a read
    inference_times,    \* InferenceEngine.inference_times of one engine
    video_processor,    \* the fields of one VideoProcessor
    njobs,              \* worker threads started so far
    wpc, wvideo,        \* worker threads: position, video_path argument
    config_video,       \* config.yaml: video.input_path
    pipe,               \* pipeline processes: position and local variables
    detections_file,    \* output/current_detections.json
    session_file,       \* output/current_session.json
    snapshot_files,     \* output/detections_local_<timestamp>.json
    fb_detections,      \* remote /detections
    fb_sessions         \* remote /sessions/inference_<t>

vars == <<FIREBASE_ENABLED, current_analysis, hpc, hvideo, hsid, response,
          reply, inference_times, video_processor, njobs, wpc, wvideo, config_video, pipe, detections_file,
          session_file, snapshot_files, fb_detections, fb_sessions>>

hvars == <<hpc, hvideo, hsid>>
wvars == <<njobs, wpc, wvideo>>
localSink == <<detections_file, session_file, snapshot_files>>
remoteSink == <<fb_detections, fb_sessions>>

\* int(time.time())
Clock == njobs

\* ------------------------------------------------------------ pipeline
NoPipe == [pc |-> "none", session_id |-> NoSession, video |-> None,
           frame_count |-> 0, total_detections |-> 0,
           all_detections |-> <<>>, u_frame_count |-> 0, u_total |-> 0]

RunningPcs == {"load_config", "init_session", "init_dump", "read", "push",
               "push_dump", "finalize", "final_dump", "snapshot",
               "except_end"}
ExitedPcs == {"exit0", "exit1", "killed"}

PipelineAlive(j) == pipe[j].pc \in RunningPcs

\* The locals of main() end with the process; its exit status stays until
\* communicate() has collected it.
Exited(status) == [NoPipe EXCEPT !.pc = status]

\* engine.predict(frame) on frame i of a video file: the detections found
\* depend on the frame alone.
predict(i) == i % (MaxDet + 1)

Init ==
    /\ FIREBASE_ENABLED \in BOOLEAN
    /\ current_analysis = [running |-> FALSE, session_id |-> NoSession,
                           video_name |-> None, start_time |-> None,
                           process |-> None]
    /\ hpc = [h \in Handlers |-> "idle"]
    /\ hvideo = [h \in Handlers |-> None]
    /\ hsid = [h \in Handlers |-> NoSession]
    /\ response = "none"
    /\ reply = NoReply
    /\ inference_times = <<>>
    /\ video_processor = NoVideo
    /\ njobs = 0
    /\ wpc = [j \in Jobs |-> "none"]
    /\ wvideo = [j \in Jobs |-> None]
    /\ config_video = None
    /\ pipe = [j \in Jobs |-> NoPipe]
    /\ detections_file = Absent
    /\ session_file = Absent
    /\ snapshot_files = [t \in Times |-> Absent]
    /\ fb_detections = <<>>
    /\ fb_sessions = [t \in Times |-> Absent]

\* ------------------------------------------------- start_analysis (197-247)
StartBodyPcs == {"start_clear", "start_set_running", "start_thread"}

RequestKinds == {"valid", "bad_json", "no_path", "not_found"}

\* Worker threads that the requests past line 213 are still going to start.
PendingStarts == Cardinality({h \in Handlers : hpc[h] \in StartBodyPcs})

\* return jsonify(...): the request thread ends.
Respond(h, r) ==
    /\ hpc' = [hpc EXCEPT ![h] = "idle"]
    /\ hvideo' = [hvideo EXCEPT ![h] = None]
    /\ hsid' = [hsid EXCEPT ![h] = NoSession]
    /\ response' = r
    /\ reply' = NoReply
    /\ UNCHANGED <<inference_times, video_processor>>

\* The request thread goes on to its next statement.
Goto(h, pc) ==
    /\ hpc' = [hpc EXCEPT ![h] = pc]
    /\ response' = "none"
    /\ reply' = NoReply
    /\ UNCHANGED <<inference_times, video_processor>>

\* start_analysis without the running check of lines 201-202.
StartCheckUnguarded(h, kind, v) ==
    /\ hpc[h] = "idle"
    /\ CASE kind = "bad_json" ->
              Goto(h, "start_except") /\ UNCHANGED <<hvideo, hsid>>
         [] kind = "no_path" -> Respond(h, "no_path")
         [] kind = "not_found" -> Respond(h, "not_found")
         [] kind = "valid" ->
              /\ njobs + PendingStarts < MaxJobs
              /\ Goto(h, "start_clear")
              /\ hvideo' = [hvideo EXCEPT ![h] = v]
              /\ UNCHANGED hsid
    /\ UNCHANGED <<FIREBASE_ENABLED, current_analysis, wvars,
                   config_video, pipe, localSink, remoteSink>>

\* Lines 201-213: the running check, then the validation of the request.
StartCheck(h, kind, v) ==
    /\ hpc[h] = "idle"
    /\ IF current_analysis["running"]
       THEN Respond(h, "already_running")
       ELSE CASE kind = "bad_json" ->
                   Goto(h, "start_except") /\ UNCHANGED <<hvideo, hsid>>
              [] kind = "no_path" -> Respond(h, "no_path")
              [] kind = "not_found" -> Respond(h, "not_found")
              [] kind = "valid" ->
                   /\ njobs + PendingStarts < MaxJobs
                   /\ Goto(h, "start_clear")
                   /\ hvideo' = [hvideo EXCEPT ![h] = v]
                   /\ UNCHANGED hsid
    /\ UNCHANGED <<FIREBASE_ENABLED, current_analysis, wvars,
                   config_video, pipe, localSink, remoteSink>>

\* Lines 60-83: clear_data(); every exception inside it is swallowed.
\* Local mode unlinks the two files one after the other; remote mode empties
\* /detections, then /frames (which no pipeline writes).
clear_data(outcome) ==
    IF FIREBASE_ENABLED
    THEN /\ fb_detections' =
               IF outcome = "fail_first" THEN fb_detections ELSE <<>>
         /\ UNCHANGED <<fb_sessions, localSink>>
    ELSE /\ detections_file' =
               IF outcome = "fail_first" THEN detections_file ELSE Absent
         /\ session_file' = IF outcome = "ok" THEN Absent ELSE session_file
         /\ UNCHANGED <<snapshot_files, remoteSink>>

ClearOutcomes == {"ok", "fail_first", "fail_second"}

\* start_analysis with a clear_data that lets its exception through to the
\* handler's except clause.
StartClearRaising(h, outcome) ==
    /\ hpc[h] = "start_clear"
    /\ hsid' = [hsid EXCEPT ![h] = SessionId("session", Clock)]
    /\ clear_data(outcome)
    /\ Goto(h, IF outcome = "ok" THEN "start_set_running" ELSE "start_except")
    /\ UNCHANGED <<FIREBASE_ENABLED, current_analysis, hvideo, wvars,
                   config_video, pipe>>

\* Lines 216-219: session_id = f"session_{int(time.time())}"; clear_data().
StartClear(h, outcome) ==
    /\ hpc[h] = "start_clear"
    /\ hsid' = [hsid EXCEPT ![h] = SessionId("session", Clock)]
    /\ clear_data(outcome)
    /\ Goto(h, "start_set_running")
    /\ UNCHANGED <<FIREBASE_ENABLED, current_analysis, hvideo, wvars,
                   config_video, pipe>>

\* Line 222.
StartSetRunning(h) ==
    /\ hpc[h] = "start_set_running"
    /\ current_analysis' = [current_analysis EXCEPT !["running"] = TRUE]
    /\ Goto(h, "start_thread")
    /\ UNCHANGED <<FIREBASE_ENABLED, hvideo, hsid, wvars, config_video, pipe,
                   localSink, remoteSink>>

\* Lines 223-242: the three descriptive keys (read by get_status alone),
\* thread.start() and the success response.
StartThread(h) ==
    /\ hpc[h] = "start_thread"
    /\ current_analysis' = [current_analysis EXCEPT
                              !["session_id"] = hsid[h],
                              !["video_name"] = hvideo[h],
                              !["start_time"] = Clock]
    /\ njobs' = njobs + 1
    /\ wpc' = [wpc EXCEPT ![njobs + 1] = "launch"]
    /\ wvideo' = [wvideo EXCEPT ![njobs + 1] = hvideo[h]]
    /\ Respond(h, "ok")
    /\ UNCHANGED <<FIREBASE_ENABLED, config_video, pipe, localSink,
                   remoteSink>>

\* Lines 244-247: request.json / data.get raised after the running check.
StartExcept(h) ==
    /\ hpc[h] = "start_except"
    /\ current_analysis' = [current_analysis EXCEPT !["running"] = FALSE]
    /\ Respond(h, "error_500")
    /\ UNCHANGED <<FIREBASE_ENABLED, wvars, config_video, pipe, localSink,
                   remoteSink>>

\* -------------------------------------------------- stop_analysis (261-272)
\* Popen.terminate(): SIGTERM ends a live pipeline process where it stands
\* (the scripts install no handler); on an exited process it does nothing.
terminate(p) ==
    IF pipe[p].pc \in RunningPcs
    THEN pipe' = [pipe EXCEPT ![p] = Exited("killed")]
    ELSE UNCHANGED pipe

\* stop_analysis testing the process handle alone.
StopCheckHandleOnly(h) ==
    /\ hpc[h] = "idle"
    /\ IF current_analysis["process"] # None
       THEN Goto(h, "stop_terminate") /\ UNCHANGED <<hvideo, hsid>>
       ELSE Respond(h, "stopped_false")
    /\ UNCHANGED <<FIREBASE_ENABLED, current_analysis, wvars, config_video,
                   pipe, localSink, remoteSink>>

\* Line 265: current_analysis["process"] and current_analysis["running"].
\* The process key never goes back to None, so the two reads give what one
\* read of both gives at the moment running is read.
StopCheck(h) ==
    /\ hpc[h] = "idle"
    /\ IF current_analysis["process"] # None /\ current_analysis["running"]
       THEN Goto(h, "stop_terminate") /\ UNCHANGED <<hvideo, hsid>>
       ELSE Respond(h, "stopped_false")
    /\ UNCHANGED <<FIREBASE_ENABLED, current_analysis, wvars, config_video,
                   pipe, localSink, remoteSink>>

\* Line 266: current_analysis["process"].terminate().
StopTerminate(h) ==
    /\ hpc[h] = "stop_terminate"
    /\ terminate(current_analysis["process"])
    /\ Goto(h, "stop_set_running")
    /\ UNCHANGED <<FIREBASE_ENABLED, current_analysis, hvideo, hsid, wvars,
                   config_video, localSink, remoteSink>>

\* Lines 267-268.
StopSetRunning(h) ==
    /\ hpc[h] = "stop_set_running"
    /\ current_analysis' = [current_analysis EXCEPT !["running"] = FALSE]
    /\ Respond(h, "stopped_true")
    /\ UNCHANGED <<FIREBASE_ENABLED, wvars, config_video, pipe, localSink,
                   remoteSink>>

\* ----------------------------------------- run_inference_background (101-148)
\* Lines 105-131: update_config_video_path rewrites config.yaml, then
\* subprocess.Popen starts the pipeline script.
WorkerLaunch(j) ==
    /\ wpc[j] = "launch"
    /\ config_video' = wvideo[j]
    /\ pipe' = [pipe EXCEPT ![j].pc = "load_config"]
    /\ wpc' = [wpc EXCEPT ![j] = "store_process"]
    /\ wvideo' = [wvideo EXCEPT ![j] = None]
    /\ response' = "none"
    /\ reply' = NoReply
    /\ UNCHANGED <<inference_times, video_processor>>
    /\ UNCHANGED <<FIREBASE_ENABLED, current_analysis, hvars, njobs,
                   localSink, remoteSink>>

\* Line 133.
WorkerStoreProcess(j) ==
    /\ wpc[j] = "store_process"
    /\ current_analysis' = [current_analysis EXCEPT !["process"] = j]
    /\ wpc' = [wpc EXCEPT ![j] = "communicate"]
    /\ response' = "none"
    /\ reply' = NoReply
    /\ UNCHANGED <<inference_times, video_processor>>
    /\ UNCHANGED <<FIREBASE_ENABLED, hvars, njobs, wvideo, config_video,
                   pipe, localSink, remoteSink>>

\* run_inference_background resetting running on a zero exit code only.
WorkerCommunicateOnSuccess(j) ==
    /\ wpc[j] = "communicate"
    /\ pipe[j].pc \in ExitedPcs
    /\ current_analysis' =
           IF pipe[j].pc = "exit0"
           THEN [current_analysis EXCEPT !["running"] = FALSE]
           ELSE current_analysis
    /\ pipe' = [pipe EXCEPT ![j] = Exited("reaped")]
    /\ wpc' = [wpc EXCEPT ![j] = "ended"]
    /\ response' = "none"
    /\ reply' = NoReply
    /\ UNCHANGED <<inference_times, video_processor>>
    /\ UNCHANGED <<FIREBASE_ENABLED, hvars, njobs, wvideo, config_video,
                   localSink, remoteSink>>

\* Lines 136-144: communicate() returns once the process has exited, with
\* any return code; then running is reset.
WorkerCommunicate(j) ==
    /\ wpc[j] = "communicate"
    /\ pipe[j].pc \in ExitedPcs
    /\ current_analysis' = [current_analysis EXCEPT !["running"] = FALSE]
    /\ pipe' = [pipe EXCEPT ![j] = Exited("reaped")]
    /\ wpc' = [wpc EXCEPT ![j] = "ended"]
    /\ response' = "none"
    /\ reply' = NoReply
    /\ UNCHANGED <<inference_times, video_processor>>
    /\ UNCHANGED <<FIREBASE_ENABLED, hvars, njobs, wvideo, config_video,
                   localSink, remoteSink>>

\* Lines 146-148: the config update or Popen raised.
WorkerExcept(j) ==
    /\ wpc[j] = "launch"
    /\ current_analysis' = [current_analysis EXCEPT !["running"] = FALSE]
    /\ wpc' = [wpc EXCEPT ![j] = "ended"]
    /\ wvideo' = [wvideo EXCEPT ![j] = None]
    /\ response' = "none"
    /\ reply' = NoReply
    /\ UNCHANGED <<inference_times, video_processor>>
    /\ UNCHANGED <<FIREBASE_ENABLED, hvars, njobs, config_video, pipe,
                   localSink, remoteSink>>

\* ------------------------------- run_inference_local / run_inference_firebase
Session(sid, status, frames, dets) ==
    [exists |-> TRUE, session_id |-> sid, status |-> status,
     frame_count |-> frames, total_detections |-> dets]

\* detection_formatter.py:36-45, plus the sink's session context.
format_detection_event(frame_number, detections, sid) ==
    [frame_id |-> frame_number, detection_count |-> detections,
     session_id |-> sid]

\* Local 71-84: load_config(), the session id, the engine and the video.
\* Firebase 73: load_config().
PipeLoadConfig(j) ==
    /\ pipe[j].pc = "load_config"
    /\ pipe' = [pipe EXCEPT
                  ![j].video = config_video,
                  ![j].session_id =
                      IF FIREBASE_ENABLED THEN NoSession
                      ELSE SessionId("local", Clock),
                  ![j].pc = "init_session"]
    /\ response' = "none"
    /\ reply' = NoReply
    /\ UNCHANGED <<inference_times, video_processor>>
    /\ UNCHANGED <<FIREBASE_ENABLED, current_analysis, hvars, wvars,
                   config_video, localSink, remoteSink>>

\* Local 95-105: session_data and open(session_file, 'w'), which empties the
\* file; json.dump (106) fills it in PipeDump.
\* Firebase 76: FirebaseUploader.__init__ and _init_session (uploader 25-44);
\* the engine and the video (79-85) are built before the first read.
PipeInitSession(j) ==
    /\ pipe[j].pc = "init_session"
    /\ IF FIREBASE_ENABLED
       THEN /\ pipe' = [pipe EXCEPT
                          ![j].session_id = SessionId("inference", Clock),
                          ![j].pc = "read"]
            /\ fb_sessions' = [fb_sessions EXCEPT ![Clock] =
                   Session(SessionId("inference", Clock), "active", 0, 0)]
            /\ UNCHANGED <<fb_detections, localSink>>
       ELSE /\ pipe' = [pipe EXCEPT ![j].pc = "init_dump"]
            /\ session_file' = Truncated
            /\ UNCHANGED <<detections_file, snapshot_files, remoteSink>>
    /\ response' = "none"
    /\ reply' = NoReply
    /\ UNCHANGED <<inference_times, video_processor>>
    /\ UNCHANGED <<FIREBASE_ENABLED, current_analysis, hvars, wvars,
                   config_video>>

\* video.read_frame() (video_processor.py:104-113), the loop exit (126-128)
\* and frame_count += 1 (130).
PipeRead(j) ==
    /\ pipe[j].pc = "read"
    /\ IF pipe[j].frame_count < pipe[j].video
       THEN pipe' = [pipe EXCEPT ![j].frame_count = @ + 1, ![j].pc = "push"]
       ELSE pipe' = [pipe EXCEPT ![j].pc = "finalize"]
    /\ response' = "none"
    /\ reply' = NoReply
    /\ UNCHANGED <<inference_times, video_processor>>
    /\ UNCHANGED <<FIREBASE_ENABLED, current_analysis, hvars, wvars,
                   config_video, localSink, remoteSink>>

\* The local loop storing an event only for a frame with detections.
PushLocalDetectionsOnly(j, pushed) ==
    LET d == predict(pipe[j].frame_count)
        event == format_detection_event(pipe[j].frame_count, d,
                                        pipe[j].session_id)
        all == IF d > 0 THEN Append(pipe[j].all_detections, event)
               ELSE pipe[j].all_detections
    IN  IF pushed
        THEN /\ pipe' = [pipe EXCEPT
                           ![j].all_detections = all,
                           ![j].total_detections = @ + d,
                           ![j].pc = "push_dump"]
             /\ detections_file' = Truncated
             /\ UNCHANGED <<session_file, snapshot_files, remoteSink>>
        ELSE /\ pipe' = [pipe EXCEPT ![j] = Exited("exit1")]
             /\ UNCHANGED <<localSink, remoteSink>>

\* Local 133-152: predict, format, append, count, and
\* open(detections_file, 'w'), which empties the file; json.dump (153-156)
\* fills it in PipeDump. The write is a statement of the main try block: when
\* open() raises, except Exception (240-244) exits with code 1.
PushLocal(j, pushed) ==
    LET d == predict(pipe[j].frame_count)
        event == format_detection_event(pipe[j].frame_count, d,
                                        pipe[j].session_id)
        all == Append(pipe[j].all_detections, event)
    IN  IF pushed
        THEN /\ pipe' = [pipe EXCEPT
                           ![j].all_detections = all,
                           ![j].total_detections = @ + d,
                           ![j].pc = "push_dump"]
             /\ detections_file' = Truncated
             /\ UNCHANGED <<session_file, snapshot_files, remoteSink>>
        ELSE /\ pipe' = [pipe EXCEPT ![j] = Exited("exit1")]
             /\ UNCHANGED <<localSink, remoteSink>>

\* Firebase 115-130 with upload_detection_event (uploader 47-71): a failed
\* push is caught there and returns None.
PushRemote(j, pushed) ==
    LET d == predict(pipe[j].frame_count)
        event == format_detection_event(pipe[j].frame_count, d, NoSession)
        sent == format_detection_event(pipe[j].frame_count, d,
                                       pipe[j].session_id)
    IN  /\ pipe' = [pipe EXCEPT
                      ![j].all_detections = Append(@, event),
                      ![j].u_total = IF pushed THEN @ + d ELSE @,
                      ![j].pc = "read"]
        /\ fb_detections' =
               IF pushed THEN Append(fb_detections, sent) ELSE fb_detections
        /\ UNCHANGED <<fb_sessions, localSink>>

PipePush(j, pushed) ==
    /\ pipe[j].pc = "push"
    /\ IF FIREBASE_ENABLED THEN PushRemote(j, pushed)
       ELSE PushLocal(j, pushed)
    /\ response' = "none"
    /\ reply' = NoReply
    /\ UNCHANGED <<inference_times, video_processor>>
    /\ UNCHANGED <<FIREBASE_ENABLED, current_analysis, hvars, wvars,
                   config_video>>

\* FirebaseUploader.end_session (uploader 113-128): update_data merges the
\* uploader's counters into the session node; a failure is caught.
end_session(j, done) ==
    LET t == pipe[j].session_id[2]
        node == Session(pipe[j].session_id, "completed",
                        pipe[j].u_frame_count, pipe[j].u_total)
    IN  fb_sessions' = IF done THEN [fb_sessions EXCEPT ![t] = node]
                       ELSE fb_sessions

\* Local 197-206: session_data gets status completed and the counts, and
\* open(session_file, 'w') empties the file; json.dump (207) fills it in
\* PipeDump.
\* Firebase 174-178: uploader.end_session().
PipeFinalize(j, done) ==
    /\ pipe[j].pc = "finalize"
    /\ IF FIREBASE_ENABLED
       THEN /\ end_session(j, done)
            /\ UNCHANGED <<fb_detections, localSink>>
       ELSE /\ done
            /\ session_file' = Truncated
            /\ UNCHANGED <<detections_file, snapshot_files, remoteSink>>
    /\ pipe' = [pipe EXCEPT ![j].pc =
                  IF FIREBASE_ENABLED THEN "snapshot" ELSE "final_dump"]
    /\ response' = "none"
    /\ reply' = NoReply
    /\ UNCHANGED <<inference_times, video_processor>>
    /\ UNCHANGED <<FIREBASE_ENABLED, current_analysis, hvars, wvars,
                   config_video>>

DumpPcs == {"init_dump", "push_dump", "final_dump"}

\* Local 106, 153-156, 207: json.dump writes the whole document into the
\* file that the with statement has opened.
PipeDump(j) ==
    /\ pipe[j].pc \in DumpPcs
    /\ CASE pipe[j].pc = "init_dump" ->
              /\ session_file' = Session(pipe[j].session_id, "active", 0, 0)
              /\ pipe' = [pipe EXCEPT ![j].pc = "read"]
              /\ UNCHANGED detections_file
         [] pipe[j].pc = "push_dump" ->
              /\ detections_file' = [exists |-> TRUE,
                                     session_id |-> pipe[j].session_id,
                                     detections |-> pipe[j].all_detections]
              /\ pipe' = [pipe EXCEPT ![j].pc = "read"]
              /\ UNCHANGED session_file
         [] pipe[j].pc = "final_dump" ->
              /\ session_file' = Session(pipe[j].session_id, "completed",
                                         pipe[j].frame_count,
                                         pipe[j].total_detections)
              /\ pipe' = [pipe EXCEPT ![j].pc = "snapshot"]
              /\ UNCHANGED detections_file
    /\ response' = "none"
    /\ reply' = NoReply
    /\ UNCHANGED <<inference_times, video_processor>>
    /\ UNCHANGED <<FIREBASE_ENABLED, current_analysis, hvars, wvars,
                   config_video, snapshot_files, remoteSink>>

\* Local 210-216: the timestamped archive of the session and its events.
\* Firebase 181-184: the backup file is not part of the remote sink.
PipeSnapshot(j) ==
    /\ pipe[j].pc = "snapshot"
    /\ IF FIREBASE_ENABLED
       THEN UNCHANGED localSink
       ELSE /\ snapshot_files' = [snapshot_files EXCEPT ![Clock] =
                   [exists |-> TRUE,
                    session |-> Session(pipe[j].session_id, "completed",
                                        pipe[j].frame_count,
                                        pipe[j].total_detections),
                    detections |-> pipe[j].all_detections]]
            /\ UNCHANGED <<detections_file, session_file>>
    /\ pipe' = [pipe EXCEPT ![j] = Exited("exit0")]
    /\ response' = "none"
    /\ reply' = NoReply
    /\ UNCHANGED <<inference_times, video_processor>>
    /\ UNCHANGED <<FIREBASE_ENABLED, current_analysis, hvars, wvars,
                   config_video, remoteSink>>

\* Positions at which a statement of main() other than a sink push can raise
\* (config, model and video loading, frame decode, inference, the final
\* writes).
RaisingPcs == {"load_config", "init_session", "init_dump", "read", "push",
               "push_dump", "finalize", "final_dump", "snapshot"}

\* Firebase 207/214: 'uploader' in locals().
UploaderInLocals(j) == pipe[j].session_id # NoSession

\* except Exception: local 240-244 exits with code 1; firebase 212-218 first
\* ends the session when the uploader exists.
PipeRaise(j) ==
    /\ pipe[j].pc \in RaisingPcs
    /\ pipe' = IF FIREBASE_ENABLED /\ UploaderInLocals(j)
               THEN [pipe EXCEPT ![j].pc = "except_end"]
               ELSE [pipe EXCEPT ![j] = Exited("exit1")]
    /\ response' = "none"
    /\ reply' = NoReply
    /\ UNCHANGED <<inference_times, video_processor>>
    /\ UNCHANGED <<FIREBASE_ENABLED, current_analysis, hvars, wvars,
                   config_video, localSink, remoteSink>>

\* Firebase 214-218: uploader.end_session(), then sys.exit(1).
PipeExceptEnd(j, done) ==
    /\ pipe[j].pc = "except_end"
    /\ end_session(j, done)
    /\ pipe' = [pipe EXCEPT ![j] = Exited("exit1")]
    /\ response' = "none"
    /\ reply' = NoReply
    /\ UNCHANGED <<inference_times, video_processor>>
    /\ UNCHANGED <<FIREBASE_ENABLED, current_analysis, hvars, wvars,
                   config_video, fb_detections, localSink>>

\* ------------------------------------------------ read requests (250-315)
\* The read endpoints finish in one step: get_status evaluates one dict
\* display, get_detections and get_session read one small file.
readUnchanged == <<FIREBASE_ENABLED, current_analysis, hvars, wvars,
                   config_video, pipe, localSink, remoteSink,
                   inference_times, video_processor>>

\* Lines 250-258: the four fields as they stand when the request is served.
get_status ==
    /\ response' = "status"
    /\ reply' = [running |-> current_analysis["running"],
                 session_id |-> current_analysis["session_id"],
                 video_name |-> current_analysis["video_name"],
                 start_time |-> current_analysis["start_time"]]
    /\ UNCHANGED readUnchanged

\* Lines 275-294: the default body when the file does not exist, the parsed
\* file otherwise; json.load raises on an emptied or half-written file and
\* the handler answers 500. The answer as <<status, body>>.
DetectionsAnswer ==
    IF ~detections_file.exists
    THEN <<"detections", [session_id |-> NoSession, detections |-> <<>>]>>
    ELSE IF detections_file = Truncated
    THEN <<"error_500", NoReply>>
    ELSE <<"detections", [session_id |-> detections_file.session_id,
                          detections |-> detections_file.detections]>>

get_detections ==
    /\ response' = DetectionsAnswer[1]
    /\ reply' = DetectionsAnswer[2]
    /\ UNCHANGED readUnchanged

\* Lines 297-315: the same for current_session.json.
get_session ==
    /\ IF ~session_file.exists
       THEN /\ response' = "session"
            /\ reply' = [session_id |-> NoSession, status |-> "no_session"]
       ELSE IF session_file = Truncated
       THEN /\ response' = "error_500"
            /\ reply' = NoReply
       ELSE /\ response' = "session"
            /\ reply' = [session_id |-> session_file.session_id,
                         status |-> session_file.status,
                         frame_count |-> session_file.frame_count,
                         total_detections |-> session_file.total_detections]
    /\ UNCHANGED readUnchanged

\* The statements of the request threads after their first, and those of the
\* worker threads and of the pipeline processes.
Steps ==
    \/ \E h \in Handlers, outcome \in ClearOutcomes : StartClear(h, outcome)
    \/ \E h \in Handlers : StartSetRunning(h)
    \/ \E h \in Handlers : StartThread(h)
    \/ \E h \in Handlers : StartExcept(h)
    \/ \E h \in Handlers : StopTerminate(h)
    \/ \E h \in Handlers : StopSetRunning(h)
    \/ \E j \in Jobs : WorkerLaunch(j)
    \/ \E j \in Jobs : WorkerStoreProcess(j)
    \/ \E j \in Jobs : WorkerCommunicate(j)
    \/ \E j \in Jobs : WorkerExcept(j)
    \/ \E j \in Jobs : PipeLoadConfig(j)
    \/ \E j \in Jobs : PipeInitSession(j)
    \/ \E j \in Jobs : PipeRead(j)
    \/ \E j \in Jobs, pushed \in BOOLEAN : PipePush(j, pushed)
    \/ \E j \in Jobs, done \in BOOLEAN : PipeFinalize(j, done)
    \/ \E j \in Jobs : PipeDump(j)
    \/ \E j \in Jobs : PipeSnapshot(j)
    \/ \E j \in Jobs : PipeRaise(j)
    \/ \E j \in Jobs, done \in BOOLEAN : PipeExceptEnd(j, done)

\* app.run (api_server.py:337) serves every request on a thread of its own,
\* Flask's default: requests arrive at any time.
Next ==
    \/ \E h \in Handlers, kind \in RequestKinds, v \in Videos :
           StartCheck(h, kind, v)
    \/ \E h \in Handlers : StopCheck(h)
    \/ Steps

Spec == Init /\ [][Next]_vars

\* Request threads and worker threads are operating-system threads and the
\* pipeline is a process: whichever can take its next step eventually takes
\* it. Requests arriving and statements raising are not forced.
Fairness ==
    /\ \A h \in Handlers :
          /\ WF_vars(\E outcome \in ClearOutcomes : StartClear(h, outcome))
          /\ WF_vars(StartSetRunning(h))
          /\ WF_vars(StartThread(h))
          /\ WF_vars(StartExcept(h))
          /\ WF_vars(StopTerminate(h))
          /\ WF_vars(StopSetRunning(h))
    /\ \A j \in Jobs :
          /\ WF_vars(WorkerLaunch(j) \/ WorkerExcept(j))
          /\ WF_vars(WorkerStoreProcess(j))
          /\ WF_vars(WorkerCommunicate(j))

\* A client that waits for the answer to a request before it sends the next.
NoRequestInFlight == \A h \in Handlers : hpc[h] = "idle"

SerialNext ==
    \/ \E h \in Handlers, kind \in RequestKinds, v \in Videos :
           NoRequestInFlight /\ StartCheck(h, kind, v)
    \/ \E h \in Handlers : NoRequestInFlight /\ StopCheck(h)
    \/ Steps

FairSpec == Init /\ [][SerialNext]_vars /\ Fairness

\* Videos of the dashboard scenario: one frame more, so that the event log
\* grows past its first entry.
LongVideos == {MaxFrames + 1}

\* The dashboard: one operator who starts and stops jobs one request at a
\* time, and pollers that read status, detections and session at any moment.
ReadNext ==
    \/ \E h \in Handlers, kind \in RequestKinds, v \in LongVideos :
           NoRequestInFlight /\ StartCheck(h, kind, v)
    \/ \E h \in Handlers : NoRequestInFlight /\ StopCheck(h)
    \/ Steps
    \/ get_status
    \/ get_detections
    \/ get_session

ReadSpec == Init /\ [][ReadNext]_vars

\* ------------------------------------------- InferenceEngine (70-81, 105-110)
\* (time.time() - start_time) * 1000 of one model call; two readings of a
\* coarse clock can be equal.
Latencies == 0..MaxLatency

RECURSIVE Sum(_)
Sum(samples) ==
    IF samples = <<>> THEN 0 ELSE Head(samples) + Sum(Tail(samples))

\* Floats are kept as exact fractions num / den, den > 0.
Fraction(n, d) == [num |-> n, den |-> d]

\* Line 106: sum(times) / len(times) if times else 0.0
get_avg_inference_time ==
    IF inference_times # <<>>
    THEN Fraction(Sum(inference_times), Len(inference_times))
    ELSE Fraction(0, 1)

\* Lines 108-110: 1000.0 / avg if avg > 0 else 0.0
get_fps ==
    LET avg == get_avg_inference_time
    IN  IF avg.num > 0 THEN Fraction(1000 * avg.den, avg.num)
        ELSE Fraction(0, 1)

\* Lines 70-81: predict times the model call and appends the sample.
EnginePredict(latency) ==
    /\ Len(inference_times) < MaxSamples
    /\ inference_times' = Append(inference_times, latency)
    /\ UNCHANGED <<FIREBASE_ENABLED, current_analysis, hvars, response, reply,
                   wvars, config_video, pipe, localSink, remoteSink,
                   video_processor>>

EngineNext == \E latency \in Latencies : EnginePredict(latency)

\* One engine after __init__ and _load_model, whose warm-up calls
\* self.model.predict directly and records no sample.
EngineSpec == Init /\ [][EngineNext]_vars
\* ------------------------------------------------ VideoProcessor (49-118)
\* Lines 55-71: a webcam has total_frames -1. Lines 74-90: a file has the
\* frame count of its header, int(cap.get(CAP_PROP_FRAME_COUNT)), which is
\* what the container declares, not what the decoder then delivers.
\* readable is the number of frames cap.read() delivers before it returns
\* False.
VideoOpen(live, declared, readable) ==
    /\ ~video_processor.cap
    /\ video_processor' =
           [cap |-> TRUE, live |-> live,
            total_frames |-> IF live THEN -1 ELSE declared,
            current_frame |-> 0, readable |-> readable, ret |-> FALSE]
    /\ UNCHANGED <<FIREBASE_ENABLED, current_analysis, hvars, response, reply,
                   inference_times, wvars, config_video, pipe, localSink,
                   remoteSink>>

\* Lines 104-113: read_frame counts the frame when cap.read() delivered one.
read_frame ==
    /\ video_processor.cap
    /\ LET ret == video_processor.current_frame < video_processor.readable
       IN  video_processor' =
               [video_processor EXCEPT
                  !.current_frame = IF ret THEN @ + 1 ELSE @,
                  !.ret = ret]
    /\ UNCHANGED <<FIREBASE_ENABLED, current_analysis, hvars, response, reply,
                   inference_times, wvars, config_video, pipe, localSink,
                   remoteSink>>

\* Lines 115-118, as an exact fraction.
get_progress ==
    IF video_processor.total_frames <= 0 THEN Fraction(-1, 1)
    ELSE Fraction(video_processor.current_frame * 100,
                  video_processor.total_frames)

VideoNext ==
    \/ \E live \in BOOLEAN, declared \in 0..MaxTotalFrames,
          readable \in 0..MaxReadable : VideoOpen(live, declared, readable)
    \/ read_frame

VideoSpec == Init /\ [][VideoNext]_vars

\* ------------------------------------------------------------- properties
running == current_analysis["running"]

JobFields == <<current_analysis, njobs, wpc, wvideo, config_video, pipe>>
Sinks == <<localSink, remoteSink>>

\* C1: concurrent Start calls issued while the controller is idle launch at
\* most one pipeline worker: no two worker threads are ever both newly
\* started (neither having launched its pipeline nor ended).
C1_OneWorkerLaunched ==
    \A i, j \in Jobs : (wpc[i] = "launch" /\ wpc[j] = "launch") => i = j

\* C2: every Start whose call finds running true answers AlreadyRunning and
\* changes nothing: the job state, the workers, the pipelines, config.yaml
\* and both sinks stay as they are.
C2_StartWhileRunning ==
    [][\A h \in Handlers, kind \in RequestKinds, v \in Videos :
          (running /\ StartCheck(h, kind, v)) =>
              /\ response' = "already_running"
              /\ hpc'[h] = "idle"
              /\ UNCHANGED <<JobFields, Sinks>>]_vars

\* C2 witness: a Start has just been refused while a job is running.
C2_Witness ==
    /\ response = "already_running"
    /\ running
    /\ \E j \in Jobs : PipelineAlive(j)

\* C3: at most one pipeline process is alive at any time.
C3_OnePipelineAlive ==
    Cardinality({j \in Jobs : PipelineAlive(j)}) <= 1

\* C4: once every Start has returned, a Stop answers stopped=false only when
\* no job is running.
C4_StopWhileRunning ==
    (response = "stopped_false" /\ \A h \in Handlers : hpc[h] = "idle")
        => ~running

\* C5: every Stop whose call finds running false answers stopped=false and
\* leaves every field of the job state, the pipelines and the sinks
\* unchanged, so that the same Stop can be repeated with the same result.
C5_StopWhenIdle ==
    [][\A h \in Handlers :
          (~running /\ StopCheck(h)) =>
              /\ response' = "stopped_false"
              /\ hpc'[h] = "idle"
              /\ UNCHANGED <<JobFields, Sinks>>]_vars

\* C5 witness: a Stop has just answered stopped=false with no job running,
\* the handle of an earlier job still being stored.
C5_Witness ==
    /\ response = "stopped_false"
    /\ ~running
    /\ current_analysis["process"] # None
\* The Session records in durable storage, under either sink.
DurableSessions ==
    {s \in {session_file} \cup {fb_sessions[t] : t \in Times} :
        s.exists /\ s # Truncated}

\* C6: the step that finalises the session of the only job, its write
\* succeeding, leaves a Session with status completed and with frame_count
\* equal to the number of frames the pipeline read.
C6_CompletedFrameCount ==
    [][\A j \in Jobs :
          (njobs = 1 /\ PipeFinalize(j, TRUE)) =>
              \A s \in DurableSessions' :
                  /\ s.status = "completed"
                  /\ s.frame_count = pipe[j].frame_count]_vars

\* C7: when the pipeline process of the only job has ended on a Stop, its
\* Session has status completed and a frame_count within the source.
C7_CancelledSession ==
    \A j \in Jobs :
        (njobs = 1 /\ pipe[j].pc = "killed") =>
            \A s \in DurableSessions :
                /\ s.status = "completed"
                /\ s.frame_count \in 0..MaxFrames

\* C8: when the pipeline process of the only job has ended on an exception,
\* its Session has status failed.
C8_FailedSession ==
    \A j \in Jobs :
        (njobs = 1 /\ pipe[j].pc = "exit1") =>
            \A s \in DurableSessions : s.status = "failed"

\* C9: (a) the step that ends a worker thread leaves running false; (b) once
\* the pipeline process of a job has exited, with any status, its worker
\* thread ends; (c) a valid Start whose call finds running false is admitted,
\* and such a call is possible whenever a request thread is free; (d) an
\* admitted Start returns, and returns success with its worker started.
C9_WorkerEndsIdle ==
    /\ [][\A j \in Jobs : (wpc[j] # "ended" /\ wpc'[j] = "ended") =>
              ~running']_vars
    /\ \A j \in Jobs :
          (wpc[j] \in {"store_process", "communicate"}
              /\ pipe[j].pc \in ExitedPcs) ~> (wpc[j] = "ended")
    /\ [][\A h \in Handlers, v \in Videos :
              (~running /\ StartCheck(h, "valid", v)) =>
                  hpc'[h] = "start_clear"]_vars
    /\ [](\A h \in Handlers, v \in Videos :
              (~running /\ hpc[h] = "idle" /\ njobs + PendingStarts < MaxJobs)
                  => ENABLED StartCheck(h, "valid", v))
    /\ \A h \in Handlers : (hpc[h] = "start_clear") ~> (hpc[h] = "idle")
    /\ [][\A h \in Handlers :
              (hpc[h] \in StartBodyPcs /\ hpc'[h] = "idle") =>
                  (response' = "ok" /\ wpc'[njobs'] = "launch")]_vars

\* C9 witness: after the worker of the first job has ended, with running
\* false, a second Start has been admitted.
C9_Witness ==
    /\ wpc[1] = "ended"
    /\ \E h \in Handlers : hpc[h] = "start_clear"
    /\ ~running

\* C10: a failed push of one event leaves the pipeline in its frame loop,
\* about to read the next frame.
C10_PushFailureNonFatal ==
    [][\A j \in Jobs : PipePush(j, FALSE) => pipe'[j].pc = "read"]_vars
\* C11: a latest-detections or latest-session read served while a pipeline
\* is between open(path, 'w') and the end of json.dump is answered with a
\* document, never with an error.
C11_AtomicReplace ==
    [][((\E j \in Jobs : pipe[j].pc \in DumpPcs)
            /\ (get_detections \/ get_session))
          => response' # "error_500"]_vars

\* The frame numbers 1..n in order.
FrameIds(n) == [i \in 1..n |-> i]

\* C12: in local mode, while a pipeline has pushed N >= 1 events and no
\* pipeline is writing a file, the answer to latest-detections holds the N
\* events of frames 1..N in that order, each with the session_id of the
\* answer.
C12_RoundTrip ==
    \A j \in Jobs :
        (/\ ~FIREBASE_ENABLED
         /\ PipelineAlive(j)
         /\ \A k \in Jobs : pipe[k].pc \notin DumpPcs
         /\ Len(pipe[j].all_detections) >= 1)
        => /\ DetectionsAnswer[1] = "detections"
           /\ DetectionsAnswer[2].detections = pipe[j].all_detections
           /\ [i \in 1..Len(DetectionsAnswer[2].detections) |->
                  DetectionsAnswer[2].detections[i].frame_id]
                = FrameIds(Len(pipe[j].all_detections))
           /\ \A i \in 1..Len(DetectionsAnswer[2].detections) :
                  DetectionsAnswer[2].detections[i].session_id
                      = DetectionsAnswer[2].session_id

\* C13: a Status that reports running=true with a session id, while a Start
\* is between setting running and storing its own session id, reports the
\* session id of that Start.
C13_StatusSnapshot ==
    (/\ response = "status"
     /\ reply.running
     /\ reply.session_id # NoSession)
        => \A h \in Handlers :
               hpc[h] = "start_thread" => reply.session_id = hsid[h]
\* C14: when loading the configuration, the model or the video fails in the
\* pipeline process, the job state is not running.
C14_ConfigErrorsSynchronous ==
    [][\A j \in Jobs :
          (pipe[j].pc = "load_config" /\ PipeRaise(j)) => ~running]_vars

\* C15: the end-of-session write of the only job is performed on a Session
\* that is still active.
C15_FinalizeOnce ==
    [][\A j \in Jobs :
          (njobs = 1 /\ PipeExceptEnd(j, TRUE)) =>
              fb_sessions[pipe[j].session_id[2]].status = "active"]_vars

RECURSIVE SumCounts(_)
\* sum(e['detection_count'] for e in events)
SumCounts(events) ==
    IF events = <<>> THEN 0
    ELSE Head(events).detection_count + SumCounts(Tail(events))

\* C16: in local mode, once the pipeline has written its final Session, the
\* Session has status completed, frame_count equal to the number of events
\* in the event log and total_detections equal to the sum of their
\* detection_count.
C16_LocalCounters ==
    \A j \in Jobs :
        (~FIREBASE_ENABLED /\ pipe[j].pc = "snapshot") =>
            /\ detections_file # Truncated
            /\ detections_file.exists
            /\ session_file =
                   Session(pipe[j].session_id, "completed",
                           Len(detections_file.detections),
                           SumCounts(detections_file.detections))

\* C17: under the remote sink, processing a frame whose push fails advances
\* the in-memory total_detections by the detections of the frame.
C17_CountersAdvance ==
    [][\A j \in Jobs :
          (FIREBASE_ENABLED /\ PipePush(j, FALSE)) =>
              pipe'[j].u_total =
                  pipe[j].u_total + predict(pipe[j].frame_count)]_vars

\* C18: a pipeline that has read a frame is not stopped before the event of
\* that frame has reached the sink.
C18_CancelAtFrameBoundary ==
    [][\A j \in Jobs :
          pipe[j].pc \in {"push", "push_dump"} =>
              pipe'[j].pc # "killed"]_vars

\* C19: when the model call on a decoded frame fails, the pipeline stays in
\* its frame loop.
C19_PredictNeverThrows ==
    [][\A j \in Jobs :
          (pipe[j].pc = "push" /\ PipeRaise(j)) =>
              pipe'[j].pc \in {"read", "push", "push_dump"}]_vars

\* C20: the estimated FPS is 0 before any prediction and greater than 0
\* after at least one, whatever the recorded latencies.
C20_EstimatedFPS ==
    /\ get_fps.den > 0
    /\ inference_times = <<>> => get_fps.num = 0
    /\ inference_times # <<>> => get_fps.num > 0

\* C21: when a Start returns success, the active sink holds nothing that an
\* earlier job wrote: in local mode neither current_detections.json nor
\* current_session.json exists, in remote mode /detections is empty.
C21_ClearBeforeStart ==
    [][\A h \in Handlers :
          StartThread(h) =>
              IF FIREBASE_ENABLED
              THEN fb_detections' = <<>>
              ELSE detections_file' = Absent /\ session_file' = Absent]_vars

\* The durable Session record of the job of pipeline j under the active sink.
SessionRecord(j) ==
    IF FIREBASE_ENABLED THEN fb_sessions[pipe[j].session_id[2]]
    ELSE session_file

\* C22: once the pipeline has passed its end-of-session write, the durable
\* Session holds the number of frames the pipeline processed and the number
\* of detections it found, under either sink.
C22_FinalFlush ==
    \A j \in Jobs :
        pipe[j].pc = "snapshot" =>
            /\ SessionRecord(j).exists
            /\ SessionRecord(j) # Truncated
            /\ SessionRecord(j).frame_count = pipe[j].frame_count
            /\ SessionRecord(j).total_detections =
                   SumCounts(pipe[j].all_detections)

\* C23: the progress of an opened source is -1 exactly when the source is
\* live, and otherwise lies between 0 and 100.
C23_Progress ==
    video_processor.cap =>
        /\ (get_progress = Fraction(-1, 1)) <=> video_processor.live
        /\ ~video_processor.live =>
               /\ get_progress.den > 0
               /\ get_progress.num >= 0
               /\ get_progress.num <= 100 * get_progress.den

\* The events of a log, each reduced to its frame_id.
EventFrameIds(events) == [i \in 1..Len(events) |-> events[i].frame_id]

\* Frame boundaries of the pipeline: before a read and after the last one.
BoundaryPcs == {"read", "finalize", "final_dump", "snapshot"}

\* C24: (a) at every frame boundary the pipeline has emitted one event per
\* frame read, with frame_id 1, 2, ..., N in that order; (b) a frame is read
\* only when the event of every frame read before has been emitted; (c) a
\* step of a pipeline that stays alive leaves the events already emitted as
\* they are and adds at most one.
C24_OneEventPerFrame ==
    /\ [](\A j \in Jobs :
             pipe[j].pc \in BoundaryPcs =>
                 EventFrameIds(pipe[j].all_detections)
                     = FrameIds(pipe[j].frame_count))
    /\ [][\A j \in Jobs :
             pipe'[j].frame_count = pipe[j].frame_count + 1 =>
                 Len(pipe[j].all_detections) = pipe[j].frame_count]_vars
    /\ [][\A j \in Jobs :
             (PipelineAlive(j) /\ PipelineAlive(j)') =>
                 /\ Len(pipe'[j].all_detections)
                        \in {Len(pipe[j].all_detections),
                             Len(pipe[j].all_detections) + 1}
                 /\ SubSeq(pipe'[j].all_detections, 1,
                           Len(pipe[j].all_detections))
                        = pipe[j].all_detections]_vars

\* C24 witness: a pipeline has emitted the events of two frames, one with a
\* detection and one without, and stands at the frame boundary.
C24_Witness ==
    \E j \in Jobs :
        /\ pipe[j].pc = "read"
        /\ pipe[j].frame_count = 2
        /\ Len(pipe[j].all_detections) = 2
        /\ pipe[j].all_detections[2].detection_count = 0

\* The active sink holds no detection and no session artifact.
EmptyStore ==
    IF FIREBASE_ENABLED THEN fb_detections = <<>>
    ELSE detections_file = Absent /\ session_file = Absent

\* C25: (a) clear_data on an empty store changes nothing, whatever happens
\* inside it; (b) whatever happens inside clear_data, the Start goes on to
\* mark the job running; (c) a Start that has reached clear_data returns
\* success only, with its worker thread started.
C25_ClearNoOp ==
    /\ [][\A h \in Handlers, outcome \in ClearOutcomes :
             (EmptyStore /\ StartClear(h, outcome)) => UNCHANGED Sinks]_vars
    /\ [][\A h \in Handlers, outcome \in ClearOutcomes :
             StartClear(h, outcome) =>
                 /\ hpc'[h] = "start_set_running"
                 /\ response' = "none"
                 /\ UNCHANGED current_analysis]_vars
    /\ [][\A h \in Handlers :
             (hpc[h] \in StartBodyPcs /\ hpc'[h] # hpc[h]) =>
                 \/ hpc'[h] \in StartBodyPcs
                 \/ /\ hpc'[h] = "idle"
                    /\ response' = "ok"
                    /\ njobs' = njobs + 1
                    /\ wpc'[njobs'] = "launch"]_vars

\* C25 witness: in local mode a second Start has returned success, its
\* worker started, while an artifact of the first job, whose pipeline is
\* gone, is still in the store: its clear_data failed.
C25_Witness ==
    /\ ~FIREBASE_ENABLED
    /\ response = "ok"
    /\ njobs = 2
    /\ wpc[2] = "launch"
    /\ ~PipelineAlive(1)
    /\ session_file.exists

\* The archival snapshots that exist.
Snapshots == {t \in Times : snapshot_files[t].exists}

\* C26: in local mode, when the pipeline of the only job has ended, by
\* natural completion or on a Stop, exactly one archival snapshot exists,
\* and it holds a Session with status completed whose frame_count is the
\* number of events archived with it; while that pipeline is alive and has
\* not finalised its Session, no snapshot exists.
C26_SnapshotOnce ==
    \A j \in Jobs :
        (~FIREBASE_ENABLED /\ njobs = 1) =>
            /\ pipe[j].pc \in {"exit0", "killed"} =>
                   /\ Cardinality(Snapshots) = 1
                   /\ \A t \in Snapshots :
                          /\ snapshot_files[t].session.status = "completed"
                          /\ snapshot_files[t].session.frame_count
                                 = Len(snapshot_files[t].detections)
            /\ pipe[j].pc \in RunningPcs \ {"snapshot"} => Snapshots = {}

\* C27: when a Stop has just answered, no other request being in progress,
\* and the pipeline process of the latest job has exited, running is false
\* (stop_analysis has no other answer than stopped=false and stopped=true
\* when terminate() does not raise).
C27_StopAfterExit ==
    (/\ response \in {"stopped_false", "stopped_true"}
     /\ NoRequestInFlight
     /\ njobs >= 1
     /\ pipe[njobs].pc \in ExitedPcs)
        => ~running

\* C28: the completion of the worker thread of one job does not set running
\* to false while the pipeline process of another job is alive.
C28_LateWorkerCompletion ==
    [][\A j, k \in Jobs :
          (/\ j # k
           /\ PipelineAlive(k)
           /\ running
           /\ WorkerCommunicate(j)) => running']_vars

\* The session ids carried by the events in the active sink.
EventSessionIds ==
    IF FIREBASE_ENABLED
    THEN {fb_detections[i].session_id : i \in 1..Len(fb_detections)}
    ELSE IF detections_file.exists /\ detections_file # Truncated
    THEN {detections_file.session_id}
         \cup {detections_file.detections[i].session_id :
                  i \in 1..Len(detections_file.detections)}
    ELSE {}

\* C29: once the Start of the only job has returned, every durable Session
\* record and every event in the sink carries the session_id that the Start
\* stored in the job state.
C29_SessionIdAgreement ==
    (njobs = 1 /\ NoRequestInFlight) =>
        /\ \A s \in DurableSessions :
               s.session_id = current_analysis["session_id"]
        /\ \A sid \in EventSessionIds :
               sid = current_analysis["session_id"]

\* C30: the process handle that a Stop terminates is the handle of the
\* latest job, the one that the Stop found running.
C30_StopCurrentHandle ==
    [][\A h \in Handlers :
          StopTerminate(h) => current_analysis["process"] = njobs]_vars
====
